---- MODULE Spec2Model ----
(***************************************************************************)
(* TrustFlow chain synchronisation: the sync worker (sync_worker.py), the  *)
(* event ledger (onchain_event_repository.py) and the projector            *)
(* (blockchain_event_service.py) over the agreement and dispute tables.    *)
(*                                                                         *)
(* The database is modelled as a committed state plus, per worker, the     *)
(* uncommitted writes of its open session.  A worker reads the committed   *)
(* state overlaid with its own writes.                                     *)
(***************************************************************************)
EXTENDS Integers, Sequences, FiniteSets, TLC

VARIABLES
    chain,          \* the logs the RPC node serves, in serving order
    head,           \* height of the chain (number of mined blocks)
    confirmations,  \* settings.confirmations
    committed,      \* committed database state
    running,        \* ChainSyncWorker._running, per worker
    pc,             \* position of each worker's _run_loop task
    tx,             \* uncommitted writes of each worker's session
    batch,          \* locals of _process_batch, per worker
    batch_count,    \* batch_count of _run_loop, per worker
    killed_at,      \* where each kill of the process found the worker, in order
    cleanup,        \* SessionCleanupWorker, the sessions table and the clock
    lifecycle       \* start() and stop() calls in flight and _run_loop tasks

vars == <<chain, head, confirmations, committed, running, pc, tx, batch,
          batch_count, killed_at, cleanup, lifecycle>>

-----------------------------------------------------------------------------
(* Bounds of the model *)

\* logs mined on the chain
MaxLogs == 3
\* blocks mined on the chain
MaxBlocks == 3
\* process kills in one behaviour
MaxKills == 1
\* settings.confirmations ranges over 0..MaxConfirmations
MaxConfirmations == 1
\* hours the clock advances in one behaviour
MaxClock == 1

(* Program constants.  MAX_BATCH is 1000 and MAX_BATCHES_PER_SESSION is 20  *)
(* in the source; they are scaled down here so that a chain of MaxBlocks   *)
(* blocks reaches them.                                                    *)
MAX_BATCH == 1
MAX_BATCHES_PER_SESSION == 2

\* start_block passed to initialize_state_if_needed
START_BLOCK == 0

-----------------------------------------------------------------------------
(* Values *)

\* SessionCleanupWorker after construction: _running, the position of its
\* _run_loop task, the committed rows of the sessions table (each by its
\* expires_at, an hour), the rows deleted in the open transaction, the hour
\* it is (UTC) and the hours the process's local time is behind UTC
CleanupStopped ==
    [running |-> FALSE, pc |-> "stopped", sessions |-> {0}, deleted |-> {},
     clock |-> 0, utc_offset |-> 0]

\* the callers of start() and stop() whose calls can overlap
StartStopCallers == {"c1", "c2"}

\* _run_loop tasks created in one behaviour
MaxTasks == 3

\* no call in flight, no task created, _task is None (0)
NoCalls ==
    [calls |-> [c \in StartStopCallers |-> <<"idle", 0>>],
     tasks |-> [t \in 1..MaxTasks |-> "none"],
     task  |-> 0]

Workers == {"w1"}

\* the worker processes that can be started against the same database: the
\* one of run_worker.py and a second one
Processes == {"w1", "w2"}

\* absent ChainSyncState row / absent tx hash
NoRow == -1
NoTx == 0

\* Agreement rows seeded in DRAFT by the HTTP surface, and an id that has
\* no Agreement row (an orphan on chain).
SeededAgreements == {"A1"}
OrphanAgreements == {"A9"}

\* users by wallet address; "0xstranger" is registered by nobody
KnownWallets == {"0xpayer", "0xpayee"}
NoAddress == "none"
UserOfWallet(addr) ==
    CASE addr = "0xpayer" -> "payer"
      [] addr = "0xpayee" -> "payee"
      [] OTHER -> "nobody"

EventNames == {"AgreementCreated", "PaymentFunded", "DisputeOpened",
               "PaymentReleased", "PaymentRefunded"}

\* what a transaction can emit: event, agreement id, openedBy
Emissions ==
    {[event |-> n, agreement_id |-> "A1", opened_by |-> NoAddress] :
        n \in EventNames \ {"DisputeOpened"}}
    \cup {[event |-> "DisputeOpened", agreement_id |-> "A1", opened_by |-> a] :
        a \in {"0xpayer", "0xpayee", "0xstranger"}}
    \cup {[event |-> "AgreementCreated", agreement_id |-> "A9",
           opened_by |-> NoAddress]}

MkLog(em, txh, idx, blk) ==
    [tx_hash |-> txh, log_index |-> idx, block_number |-> blk,
     event |-> em.event, agreement_id |-> em.agreement_id,
     opened_by |-> em.opened_by]

-----------------------------------------------------------------------------
(* The database *)

DraftAgreement ==
    [status |-> "DRAFT", created_tx_hash |-> NoTx, funded_tx_hash |-> NoTx,
     released_tx_hash |-> NoTx, refunded_tx_hash |-> NoTx]

\* a table without rows
NoRows == [k \in {} |-> 0]

InitDB ==
    [agreements |-> [a \in SeededAgreements |-> DraftAgreement],
     disputes   |-> NoRows,
     ledger     |-> {},
     cursor     |-> NoRow]

EmptyTx ==
    [agreements |-> NoRows, disputes |-> NoRows, ledger |-> {}, cursor |-> NoRow]

\* f overridden by g where g is defined
Overlay(f, g) ==
    [k \in DOMAIN f \cup DOMAIN g |-> IF k \in DOMAIN g THEN g[k] ELSE f[k]]

\* the part of g that differs from f
Delta(f, g) ==
    LET ks == {k \in DOMAIN g : k \notin DOMAIN f \/ f[k] # g[k]}
    IN  [k \in ks |-> g[k]]

\* what a session with uncommitted writes t reads
View(c, t) ==
    [agreements |-> Overlay(c.agreements, t.agreements),
     disputes   |-> Overlay(c.disputes, t.disputes),
     ledger     |-> c.ledger \cup t.ledger,
     cursor     |-> IF t.cursor # NoRow THEN t.cursor ELSE c.cursor]

\* the uncommitted writes that turn c into the view v
WritesOf(c, v) ==
    [agreements |-> Delta(c.agreements, v.agreements),
     disputes   |-> Delta(c.disputes, v.disputes),
     ledger     |-> v.ledger \ c.ledger,
     cursor     |-> IF v.cursor # c.cursor THEN v.cursor ELSE NoRow]

\* the unique constraint widened by block_number
KeyWithBlock(r) == <<r.tx_hash, r.log_index, r.block_number>>

\* uq_onchain_events_idempotent: (chain_id, tx_hash, log_index); the model
\* has one chain id
Key(r) == <<r.tx_hash, r.log_index>>

-----------------------------------------------------------------------------
(* Event ledger: OnchainEventRepository *)

\* the OnchainEvent built by process_event from the decoded event
OnchainEvent(e) ==
    [tx_hash |-> e.tx_hash, log_index |-> e.log_index,
     event_name |-> e.event, agreement_id |-> e.agreement_id,
     block_number |-> e.block_number]

\* a plain INSERT into a ledger that does not reject the key
create_always_new(ledger, row) ==
    [ledger |-> ledger \cup {row}, is_new |-> TRUE]

\* the event is reported new and no row is stored
create_unrecorded(ledger, row) ==
    [ledger |-> ledger, is_new |-> TRUE]

\* ON CONFLICT DO UPDATE: the stored row is replaced
create_or_update(ledger, row) ==
    IF \E r \in ledger : Key(r) = Key(row)
    THEN [ledger |-> {r \in ledger : Key(r) # Key(row)} \cup {row},
          is_new |-> FALSE]
    ELSE [ledger |-> ledger \cup {row}, is_new |-> TRUE]

\* INSERT ... ON CONFLICT ON CONSTRAINT uq_onchain_events_idempotent DO
\* NOTHING RETURNING id: the ledger afterwards, and whether an id came back
create_if_not_exists(ledger, row) ==
    IF \E r \in ledger : Key(r) = Key(row)
    THEN [ledger |-> ledger, is_new |-> FALSE]
    ELSE [ledger |-> ledger \cup {row}, is_new |-> TRUE]

\* the foreign key onchain_events.agreement_id -> agreements.agreement_id
ForeignKeyHolds(db, row) == row.agreement_id \in DOMAIN db.agreements

-----------------------------------------------------------------------------
(* Repositories used by the projector *)

update_status(db, id, new_status) ==
    [db EXCEPT !.agreements[id].status = new_status]

OpenDispute(opener) ==
    [opened_by |-> opener, status |-> "OPEN", resolution |-> "null",
     resolution_tx_hash |-> NoTx, justification |-> "null",
     resolved_at |-> "null"]

\* DisputeRepository.create
dispute_create(db, id, opener) ==
    [db EXCEPT !.disputes = Overlay(db.disputes, [k \in {id} |-> OpenDispute(opener)])]

\* the resolution fields are set and the dispute's status is left as it is
resolve_keeping_status(db, id, resolution, justification, txh) ==
    [db EXCEPT !.disputes[id] =
        [@ EXCEPT !.resolution = resolution,
                  !.justification = justification,
                  !.resolution_tx_hash = txh, !.resolved_at = "now"]]

\* DisputeRepository.resolve
dispute_resolve(db, id, resolution, justification, txh) ==
    [db EXCEPT !.disputes[id] =
        [@ EXCEPT !.status = "RESOLVED", !.resolution = resolution,
                  !.justification = justification,
                  !.resolution_tx_hash = txh, !.resolved_at = "now"]]

-----------------------------------------------------------------------------
(* State projector: BlockchainEventService *)

\* created_tx_hash and CREATED are written whatever the status is
_handle_agreement_created_unguarded(db, ev) ==
    LET id == ev.agreement_id IN
    IF id \notin DOMAIN db.agreements THEN db
    ELSE update_status(
           [db EXCEPT !.agreements[id].created_tx_hash = ev.tx_hash],
           id, "CREATED")

_handle_agreement_created(db, ev) ==
    LET id == ev.agreement_id IN
    IF id \notin DOMAIN db.agreements THEN db
    ELSE IF db.agreements[id].status = "DRAFT"
         THEN update_status(
                [db EXCEPT !.agreements[id].created_tx_hash = ev.tx_hash],
                id, "CREATED")
         ELSE db

\* funded_tx_hash and FUNDED are written unless the status is FUNDED
_handle_payment_funded_unguarded(db, ev) ==
    LET id == ev.agreement_id IN
    IF id \notin DOMAIN db.agreements THEN db
    ELSE IF db.agreements[id].status # "FUNDED"
         THEN update_status(
                [db EXCEPT !.agreements[id].funded_tx_hash = ev.tx_hash],
                id, "FUNDED")
         ELSE db

_handle_payment_funded(db, ev) ==
    LET id == ev.agreement_id IN
    IF id \notin DOMAIN db.agreements THEN db
    ELSE IF db.agreements[id].status = "CREATED"
         THEN update_status(
                [db EXCEPT !.agreements[id].funded_tx_hash = ev.tx_hash],
                id, "FUNDED")
         ELSE db

\* the Dispute row is written without find_by_agreement_id
_handle_dispute_opened_unchecked(db, ev, opened_by) ==
    LET id == ev.agreement_id IN
    IF id \notin DOMAIN db.agreements THEN db
    ELSE
      LET db1 == IF db.agreements[id].status # "DISPUTED"
                 THEN update_status(db, id, "DISPUTED")
                 ELSE db
      IN  IF opened_by \notin KnownWallets THEN db1
          ELSE dispute_create(db1, id, UserOfWallet(opened_by))

\* the opener is looked up first and an unknown opener ends the handler
_handle_dispute_opened_known_only(db, ev, opened_by) ==
    LET id == ev.agreement_id IN
    IF id \notin DOMAIN db.agreements \/ opened_by \notin KnownWallets THEN db
    ELSE
      LET db1 == IF db.agreements[id].status # "DISPUTED"
                 THEN update_status(db, id, "DISPUTED")
                 ELSE db
      IN  IF id \in DOMAIN db1.disputes THEN db1
          ELSE dispute_create(db1, id, UserOfWallet(opened_by))

_handle_dispute_opened(db, ev, opened_by) ==
    LET id == ev.agreement_id IN
    IF id \notin DOMAIN db.agreements THEN db
    ELSE
      LET db1 == IF db.agreements[id].status # "DISPUTED"
                 THEN update_status(db, id, "DISPUTED")
                 ELSE db
      IN  IF opened_by \notin KnownWallets THEN db1
          ELSE IF id \in DOMAIN db1.disputes THEN db1
          ELSE dispute_create(db1, id, UserOfWallet(opened_by))

\* RELEASED is written only along FUNDED -> RELEASED and DISPUTED -> RELEASED
_handle_payment_released_guarded(db, ev) ==
    LET id == ev.agreement_id IN
    IF id \notin DOMAIN db.agreements THEN db
    ELSE IF db.agreements[id].status \notin {"FUNDED", "DISPUTED"} THEN db
    ELSE
      LET db1 == update_status(
                   [db EXCEPT !.agreements[id].released_tx_hash = ev.tx_hash],
                   id, "RELEASED")
      IN  IF id \in DOMAIN db1.disputes /\ db1.disputes[id].resolution = "null"
          THEN dispute_resolve(db1, id, "RELEASE",
                               "Resolved on-chain via release", ev.tx_hash)
          ELSE db1

_handle_payment_released(db, ev) ==
    LET id == ev.agreement_id IN
    IF id \notin DOMAIN db.agreements THEN db
    ELSE
      LET db1 == update_status(
                   [db EXCEPT !.agreements[id].released_tx_hash = ev.tx_hash],
                   id, "RELEASED")
      IN  IF id \in DOMAIN db1.disputes /\ db1.disputes[id].resolution = "null"
          THEN dispute_resolve(db1, id, "RELEASE",
                               "Resolved on-chain via release", ev.tx_hash)
          ELSE db1

\* REFUNDED is written and the dispute is not looked at
_handle_payment_refunded_status_only(db, ev) ==
    LET id == ev.agreement_id IN
    IF id \notin DOMAIN db.agreements THEN db
    ELSE update_status(
           [db EXCEPT !.agreements[id].refunded_tx_hash = ev.tx_hash],
           id, "REFUNDED")

_handle_payment_refunded(db, ev) ==
    LET id == ev.agreement_id IN
    IF id \notin DOMAIN db.agreements THEN db
    ELSE
      LET db1 == update_status(
                   [db EXCEPT !.agreements[id].refunded_tx_hash = ev.tx_hash],
                   id, "REFUNDED")
      IN  IF id \in DOMAIN db1.disputes /\ db1.disputes[id].resolution = "null"
          THEN dispute_resolve(db1, id, "REFUND",
                               "Resolved on-chain via refund", ev.tx_hash)
          ELSE db1

\* the dispatch of process_event on event_name
Project(db, ev, opened_by) ==
    CASE ev.event_name = "AgreementCreated" -> _handle_agreement_created(db, ev)
      [] ev.event_name = "PaymentFunded"    -> _handle_payment_funded(db, ev)
      [] ev.event_name = "DisputeOpened"    -> _handle_dispute_opened(db, ev, opened_by)
      [] ev.event_name = "PaymentReleased"  -> _handle_payment_released(db, ev)
      [] ev.event_name = "PaymentRefunded"  -> _handle_payment_refunded(db, ev)
      [] OTHER -> db

\* process_event on the session's view db.  outcome is "duplicate" (the
\* insert met the idempotency key), "integrity_error" (the insert violated
\* the foreign key and raised) or "applied".  On "integrity_error" db is
\* what the statement left behind before the savepoint is rolled back.
process_event(db, e) ==
    LET event == OnchainEvent(e)
        ins   == create_if_not_exists(db.ledger, event)
        db1   == [db EXCEPT !.ledger = ins.ledger]
    IN  IF ins.is_new /\ ~ ForeignKeyHolds(db, event)
        THEN [db |-> db, outcome |-> "integrity_error"]
        ELSE IF ~ ins.is_new
        THEN [db |-> db1, outcome |-> "duplicate"]
        ELSE [db |-> Project(db1, event, e.opened_by), outcome |-> "applied"]

\* "async with session.begin_nested()": the savepoint is released when
\* process_event returns and rolled back when it raises
SavepointScoped(db, e) ==
    LET r == process_event(db, e) IN
    IF r.outcome = "integrity_error" THEN db ELSE r.db

\* no "except IntegrityError" around the savepoint
CaughtNever(outcome) == FALSE

\* "except IntegrityError": the exceptions of process_event that
\* _process_batch catches
CaughtInBatch(outcome) == outcome = "integrity_error"

-----------------------------------------------------------------------------
(* The chain as the RPC node serves it *)

NextTx == Len(chain) + 1

\* the blocks a miner can append: no log, one log, one transaction with two
\* logs, which the node serves against log_index order (two logs served in
\* order are the case of two successive blocks), or the last log the node
\* has served, served again with the same (tx_hash, log_index)
BlockChoices(blk) ==
    {<<>>}
    \cup {<<MkLog(em, NextTx, 0, blk)>> : em \in Emissions}
    \cup {<<MkLog(p[2], NextTx, 1, blk), MkLog(p[1], NextTx, 0, blk)>> :
            p \in Emissions \X Emissions}
    \cup {<<[chain[i] EXCEPT !.block_number = blk]>> : i \in {Len(chain)} \cap DOMAIN chain}

MineBlock ==
    /\ head < MaxBlocks
    /\ \E logs \in BlockChoices(head + 1) :
          /\ Len(chain) + Len(logs) <= MaxLogs
          \* the contract stays quiet once a block without logs was mined
          /\ logs # <<>> =>
                IF chain = <<>> THEN head = 0
                ELSE chain[Len(chain)].block_number = head
          /\ chain' = chain \o logs
    /\ head' = head + 1
    /\ UNCHANGED <<confirmations, committed, running, pc, tx, batch,
                   batch_count, killed_at, cleanup, lifecycle>>

\* the logs of [from_block, to_block), the last block left out
get_logs_half_open(from_block, to_block) ==
    SelectSeq(chain, LAMBDA l : from_block <= l.block_number
                                /\ l.block_number < to_block)

\* eth_getLogs over [from_block, to_block]
get_logs(from_block, to_block) ==
    SelectSeq(chain, LAMBDA l : from_block <= l.block_number
                                /\ l.block_number <= to_block)

\* eth_blockNumber: the node answering may lag behind the head
BlockNumbers == 0..head

-----------------------------------------------------------------------------
(* Sync worker: ChainSyncWorker *)

NoBatch ==
    [from_block |-> 0, to_block |-> 0, current_block |-> 0, logs |-> <<>>,
     blocks_processed |-> 0, reached_top |-> FALSE, error |-> "none"]

\* _process_batch has returned (blocks_processed, reached_top); the block
\* number it read is remembered
Returned(current_block, n, top) ==
    [NoBatch EXCEPT !.current_block = current_block,
                    !.blocks_processed = n, !.reached_top = top]

\* start(): return when _running is set, else set it and create the
\* _run_loop task
Start(w) ==
    IF running[w]
    THEN UNCHANGED vars
    ELSE /\ pc[w] = "stopped"
         /\ running' = [running EXCEPT ![w] = TRUE]
         /\ pc' = [pc EXCEPT ![w] = "loop"]
         /\ UNCHANGED <<chain, head, confirmations, committed, tx, batch,
                        batch_count, killed_at, cleanup, lifecycle>>

\* one iteration of the outer loop begins: open the session
OpenSession(w) ==
    /\ pc[w] = "loop"
    /\ running[w]
    /\ batch_count' = [batch_count EXCEPT ![w] = 0]
    /\ tx' = [tx EXCEPT ![w] = EmptyTx]
    /\ batch' = [batch EXCEPT ![w] = NoBatch]
    /\ pc' = [pc EXCEPT ![w] = "inner"]
    /\ UNCHANGED <<chain, head, confirmations, committed, running, killed_at, cleanup, lifecycle>>

\* initialize_state_if_needed on the session's view
initialize_state_if_needed(db) ==
    IF db.cursor = NoRow THEN [db EXCEPT !.cursor = START_BLOCK] ELSE db

\* the range starting below the cursor (a rescan of the last blocks),
\* returning early only when it is empty
BatchRangeRescan(last_processed_block, current_block, conf) ==
    LET to0  == current_block - conf
        from == IF last_processed_block > 1 THEN last_processed_block - 1 ELSE 1
        to1  == IF to0 - from > MAX_BATCH THEN from + MAX_BATCH ELSE to0
    IN  IF from > to1
        THEN [kind |-> "none", from_block |-> from, to_block |-> to1]
        ELSE [kind |-> "range", from_block |-> from, to_block |-> to1]

\* the range with no confirmations subtracted
BatchRangeToHead(last_processed_block, current_block, conf) ==
    LET to0  == current_block
        from == last_processed_block + 1
        to1  == IF to0 - from > MAX_BATCH THEN from + MAX_BATCH ELSE to0
    IN  IF to0 < last_processed_block \/ from > to1
        THEN [kind |-> "none", from_block |-> from, to_block |-> to1]
        ELSE [kind |-> "range", from_block |-> from, to_block |-> to1]

\* the range that leaves out the block after the cursor
BatchRangeSkipping(last_processed_block, current_block, conf) ==
    LET to0  == current_block - conf
        from == last_processed_block + 2
        to1  == IF to0 - from > MAX_BATCH THEN from + MAX_BATCH ELSE to0
    IN  IF to0 < last_processed_block \/ from > to1
        THEN [kind |-> "none", from_block |-> from, to_block |-> to1]
        ELSE [kind |-> "range", from_block |-> from, to_block |-> to1]

\* the range _process_batch derives from the cursor and the block number:
\* "none" when it returns (0, True) before fetching
BatchRange(last_processed_block, current_block, conf) ==
    LET to0  == current_block - conf
        from == last_processed_block + 1
        to1  == IF to0 - from > MAX_BATCH THEN from + MAX_BATCH ELSE to0
    IN  IF to0 < last_processed_block \/ from > to1
        THEN [kind |-> "none", from_block |-> from, to_block |-> to1]
        ELSE [kind |-> "range", from_block |-> from, to_block |-> to1]

\* the uncommitted rows of the other sessions
Others(w) == Processes \ {w}

\* the unique index never makes an insert wait (a read followed by a write)
NeverLocked(w, e) == FALSE

\* the insert of e's key has to wait: another open transaction has inserted
\* the key and the unique index holds the statement until it ends
LedgerKeyLocked(w, e) ==
    \E o \in Others(w) : \E r \in tx[o].ledger : Key(r) = Key(e)

\* another open transaction has written the ChainSyncState row
StateRowLocked(w) == \E o \in Others(w) : tx[o].cursor # NoRow

\* get_state found no row and the insert of initialize_state_if_needed has
\* to wait for the transaction that inserted the row
StateInsertBlocked(w) ==
    View(committed, tx[w]).cursor = NoRow /\ StateRowLocked(w)

\* _process_batch up to "Determine Range", the block number query answering
DetermineRange(w) ==
    /\ pc[w] = "inner"
    /\ ~ StateInsertBlocked(w)
    /\ \E current_block \in BlockNumbers :
        LET db == initialize_state_if_needed(View(committed, tx[w]))
            r  == BatchRange(db.cursor, current_block, confirmations)
            b  == [NoBatch EXCEPT !.from_block = r.from_block,
                                  !.to_block = r.to_block,
                                  !.current_block = current_block]
        IN  /\ tx' = [tx EXCEPT ![w] = WritesOf(committed, db)]
            /\ IF r.kind = "none"
               THEN /\ batch' = [batch EXCEPT ![w] = Returned(current_block, 0, TRUE)]
                    /\ pc' = [pc EXCEPT ![w] = "returned"]
               ELSE /\ batch' = [batch EXCEPT ![w] = b]
                    /\ pc' = [pc EXCEPT ![w] = "fetch"]
    /\ UNCHANGED <<chain, head, confirmations, committed, running,
                   batch_count, killed_at, cleanup, lifecycle>>

\* the block number query fails: return (0, False)
BlockNumberFails(w) ==
    /\ pc[w] = "inner"
    /\ ~ StateInsertBlocked(w)
    /\ tx' = [tx EXCEPT ![w] =
                WritesOf(committed, initialize_state_if_needed(View(committed, tx[w])))]
    /\ batch' = [batch EXCEPT ![w] = Returned(0, 0, FALSE)]
    /\ pc' = [pc EXCEPT ![w] = "returned"]
    /\ UNCHANGED <<chain, head, confirmations, committed, running,
                   batch_count, killed_at, cleanup, lifecycle>>

\* "Fetch Logs"
FetchLogs(w) ==
    /\ pc[w] = "fetch"
    /\ batch' = [batch EXCEPT ![w].logs =
                    get_logs(batch[w].from_block, batch[w].to_block)]
    /\ pc' = [pc EXCEPT ![w] = "events"]
    /\ UNCHANGED <<chain, head, confirmations, committed, running, tx,
                   batch_count, killed_at, cleanup, lifecycle>>

\* get_logs fails: return (0, False)
FetchLogsFails(w) ==
    /\ pc[w] = "fetch"
    /\ batch' = [batch EXCEPT ![w] = Returned(0, 0, FALSE)]
    /\ pc' = [pc EXCEPT ![w] = "returned"]
    /\ UNCHANGED <<chain, head, confirmations, committed, running, tx,
                   batch_count, killed_at, cleanup, lifecycle>>

\* every log is handed to process_event under the event name it carries
DecodedAlways(l) == TRUE

\* the log has a topic0 of the precomputed table and process_log decodes it;
\* the logs that are skipped carry the reason in place of an event name
Decodable(l) == l.event \in EventNames

\* the exception e has left _process_batch and the session block, whose
\* exit rolls the session back; _run_loop is about to log it
Failed(e) == [NoBatch EXCEPT !.error = e]

\* one iteration of "for log in logs"
ProcessLog(w) ==
    /\ pc[w] = "events"
    /\ batch[w].logs # <<>>
    /\ Decodable(Head(batch[w].logs)) => ~ LedgerKeyLocked(w, Head(batch[w].logs))
    /\ LET db == View(committed, tx[w])
           e  == Head(batch[w].logs)
           r  == process_event(db, e)
       IN  IF ~ Decodable(e)
           THEN /\ batch' = [batch EXCEPT ![w].logs = Tail(@)]
                /\ UNCHANGED <<tx, pc, lifecycle>>
           ELSE
           IF r.outcome = "integrity_error" /\ ~ CaughtInBatch(r.outcome)
           THEN /\ tx' = [tx EXCEPT ![w] = EmptyTx]
                /\ batch' = [batch EXCEPT ![w] = Failed("IntegrityError")]
                /\ pc' = [pc EXCEPT ![w] = "failed"]
           ELSE /\ tx' = [tx EXCEPT ![w] = WritesOf(committed, SavepointScoped(db, e))]
                /\ batch' = [batch EXCEPT ![w].logs = Tail(@)]
                /\ pc' = pc
    /\ UNCHANGED <<chain, head, confirmations, committed, running,
                   batch_count, killed_at, cleanup, lifecycle>>

\* the session is left by an exception with its flushed statements committed
AfterExceptionFlushed(c, t) == View(c, t)

\* the committed rows after an exception has left the session block with the
\* uncommitted writes t: the exit closes the session and rolls t back
AfterException(c, t) == c

\* process_event raises an exception other than IntegrityError (a storage
\* fault) on the log at the head of batch[w].logs; the range and the logs
\* not yet processed are those of the frame the exception leaves
StorageFault(w) ==
    /\ pc[w] = "events"
    /\ batch[w].logs # <<>>
    /\ committed' = AfterException(committed, tx[w])
    /\ tx' = [tx EXCEPT ![w] = EmptyTx]
    /\ batch' = [batch EXCEPT ![w].error = "StorageError"]
    /\ pc' = [pc EXCEPT ![w] = "failed"]
    /\ UNCHANGED <<chain, head, confirmations, running,
                   batch_count, killed_at, cleanup, lifecycle>>

\* "except Exception as e: logger.error(...)" of _run_loop
LogError(w) ==
    /\ pc[w] = "failed"
    /\ batch' = [batch EXCEPT ![w] = NoBatch]
    /\ pc' = [pc EXCEPT ![w] = "sleep"]
    /\ UNCHANGED <<chain, head, confirmations, committed, running, tx,
                   batch_count, killed_at, cleanup, lifecycle>>

\* "Update State" and the return of _process_batch
UpdateState(w) ==
    /\ pc[w] = "events"
    /\ batch[w].logs = <<>>
    /\ ~ StateRowLocked(w)
    /\ LET b == batch[w] IN
        /\ tx' = [tx EXCEPT ![w] =
                    WritesOf(committed,
                             [View(committed, tx[w]) EXCEPT !.cursor = b.to_block])]
        /\ batch' = [batch EXCEPT ![w] =
                        Returned(b.current_block, b.to_block - b.from_block + 1,
                                 b.to_block >= b.current_block - confirmations)]
    /\ pc' = [pc EXCEPT ![w] = "returned"]
    /\ UNCHANGED <<chain, head, confirmations, committed, running,
                   batch_count, killed_at, cleanup, lifecycle>>

\* session.commit()
Commit(c, t) == View(c, t)

\* every returned batch is committed
ShouldCommitAlways(b) == TRUE

\* "if blocks_processed > 0" of _run_loop
ShouldCommit(b) == b.blocks_processed > 0

\* the inner loop goes round for as long as the worker runs
InnerLoopUnbounded(is_running, count) == is_running

\* "while self._running and batch_count < MAX_BATCHES_PER_SESSION"
InnerLoopGoesOn(is_running, count) ==
    is_running /\ count < MAX_BATCHES_PER_SESSION

\* _run_loop after _process_batch returned: commit when blocks were
\* processed, then leave the inner loop (and with it the session) or go
\* round it
AfterBatch(w) ==
    /\ pc[w] = "returned"
    /\ LET b      == batch[w]
           count  == IF ShouldCommit(b)
                     THEN batch_count[w] + 1 ELSE batch_count[w]
           leave  == \/ b.reached_top \/ b.blocks_processed = 0
                     \/ ~ InnerLoopGoesOn(running[w], count)
       IN  /\ batch_count' = [batch_count EXCEPT ![w] = count]
           /\ committed' = IF ShouldCommit(b)
                           THEN Commit(committed, tx[w]) ELSE committed
           /\ tx' = [tx EXCEPT ![w] =
                       IF ShouldCommit(b) \/ leave THEN EmptyTx ELSE @]
           /\ pc' = [pc EXCEPT ![w] = IF leave THEN "sleep" ELSE "inner"]
    /\ batch' = [batch EXCEPT ![w] = NoBatch]
    /\ UNCHANGED <<chain, head, confirmations, running, killed_at, cleanup, lifecycle>>

\* asyncio.sleep(settings.sync_interval_seconds), then the outer loop's test
Sleep(w) ==
    /\ pc[w] = "sleep"
    /\ pc' = [pc EXCEPT ![w] = IF running[w] THEN "loop" ELSE "stopped"]
    /\ UNCHANGED <<chain, head, confirmations, committed, running, tx, batch,
                   batch_count, killed_at, cleanup, lifecycle>>

\* every flushed statement is kept (a session in autocommit)
AfterKillFlushed(c, t) == View(c, t)

\* the cursor update is kept (the sync state saved outside the batch's
\* transaction)
AfterKillCursorKept(c, t) == [c EXCEPT !.cursor = View(c, t).cursor]

\* what the database keeps of an open transaction whose connection is lost:
\* nothing, session.commit() in _run_loop being the only commit
AfterKill(c, t) == c

\* the worker is inside a batch, after its first ledger insert and before
\* its commit
MidBatch(w) ==
    /\ pc[w] \in {"events", "returned"}
    /\ tx[w].ledger # {}

\* the process is killed: the task is gone and the open transaction is
\* rolled back by the database
Kill(w) ==
    /\ pc[w] # "stopped"
    /\ Len(killed_at) < MaxKills
    /\ killed_at' = Append(killed_at, IF MidBatch(w) THEN "mid_batch" ELSE "idle")
    /\ committed' = AfterKill(committed, tx[w])
    /\ running' = [running EXCEPT ![w] = FALSE]
    /\ pc' = [pc EXCEPT ![w] = "stopped"]
    /\ tx' = [tx EXCEPT ![w] = EmptyTx]
    /\ batch' = [batch EXCEPT ![w] = NoBatch]
    /\ batch_count' = [batch_count EXCEPT ![w] = 0]
    /\ UNCHANGED <<chain, head, confirmations, cleanup, lifecycle>>

-----------------------------------------------------------------------------
(* Specification: one worker process *)

Init ==
    /\ chain = <<>>
    /\ head = 0
    /\ confirmations \in 0..MaxConfirmations
    /\ committed = InitDB
    /\ running = [w \in Processes |-> FALSE]
    /\ pc = [w \in Processes |-> "stopped"]
    /\ tx = [w \in Processes |-> EmptyTx]
    /\ batch = [w \in Processes |-> NoBatch]
    /\ batch_count = [w \in Processes |-> 0]
    /\ killed_at = <<>>
    /\ cleanup = CleanupStopped
    /\ lifecycle = NoCalls

WorkerStep(w) ==
    \/ Start(w)
    \/ OpenSession(w)
    \/ DetermineRange(w)
    \/ BlockNumberFails(w)
    \/ FetchLogs(w)
    \/ FetchLogsFails(w)
    \/ ProcessLog(w)
    \/ StorageFault(w)
    \/ LogError(w)
    \/ UpdateState(w)
    \/ AfterBatch(w)
    \/ Sleep(w)
    \/ Kill(w)

Next ==
    \/ MineBlock
    \/ \E w \in Workers : WorkerStep(w)

Spec == Init /\ [][Next]_vars

-----------------------------------------------------------------------------
(* Specification: two worker processes on the same (chain id, contract     *)
(* address) and the same database                                          *)

\* get_state found no ChainSyncState row and the INSERT flushed by
\* initialize_state_if_needed waits on uq_chain_sync_state_chain_contract
InitializeStateBlocked(w) ==
    /\ pc[w] = "inner"
    /\ StateInsertBlocked(w)
    /\ pc' = [pc EXCEPT ![w] = "insert_wait"]
    /\ UNCHANGED <<chain, head, confirmations, committed, running, tx, batch,
                   batch_count, killed_at, cleanup, lifecycle>>

\* the transaction waited for has ended: committed, the INSERT violates the
\* unique constraint and the IntegrityError leaves _process_batch; rolled
\* back, the INSERT goes through
InitializeStateUnblocked(w) ==
    /\ pc[w] = "insert_wait"
    /\ ~ StateRowLocked(w)
    /\ IF committed.cursor # NoRow
       THEN /\ tx' = [tx EXCEPT ![w] = EmptyTx]
            /\ batch' = [batch EXCEPT ![w] = Failed("UniqueViolation")]
            /\ pc' = [pc EXCEPT ![w] = "failed"]
       ELSE /\ pc' = [pc EXCEPT ![w] = "inner"]
            /\ UNCHANGED <<tx, batch, lifecycle>>
    /\ UNCHANGED <<chain, head, confirmations, committed, running,
                   batch_count, killed_at, cleanup, lifecycle>>

\* the chains the two workers are run against: two blocks of one log each
ServedChains ==
    {<<MkLog(e1, 1, 0, 1), MkLog(e2, 2, 0, 2)>> : e1, e2 \in Emissions}

InitTwoWorkers ==
    /\ chain \in ServedChains
    /\ head = 2
    /\ confirmations = 0
    /\ committed = InitDB
    /\ running = [w \in Processes |-> FALSE]
    /\ pc = [w \in Processes |-> "stopped"]
    /\ tx = [w \in Processes |-> EmptyTx]
    /\ batch = [w \in Processes |-> NoBatch]
    /\ batch_count = [w \in Processes |-> 0]
    /\ killed_at = <<>>
    /\ cleanup = CleanupStopped
    /\ lifecycle = NoCalls

ProcessStep(w) ==
    \/ WorkerStep(w)
    \/ InitializeStateBlocked(w)
    \/ InitializeStateUnblocked(w)

NextTwoWorkers == \E w \in Processes : ProcessStep(w)

SpecTwoWorkers == InitTwoWorkers /\ [][NextTwoWorkers]_vars

\* two workers behind a chain of RaceHead blocks, whose last block holds the
\* one log: the node can answer the two with different block numbers
RaceHead == 3

RaceChains ==
    {<<MkLog(em, 1, 0, RaceHead)>> :
        em \in {e \in Emissions : /\ e.agreement_id \in SeededAgreements
                                  /\ e.event \in {"AgreementCreated", "PaymentFunded"}}}

InitRace ==
    /\ chain \in RaceChains
    /\ head = RaceHead
    /\ confirmations = 0
    /\ committed = InitDB
    /\ running = [w \in Processes |-> FALSE]
    /\ pc = [w \in Processes |-> "stopped"]
    /\ tx = [w \in Processes |-> EmptyTx]
    /\ batch = [w \in Processes |-> NoBatch]
    /\ batch_count = [w \in Processes |-> 0]
    /\ killed_at = <<>>
    /\ cleanup = CleanupStopped
    /\ lifecycle = NoCalls

SpecRace == InitRace /\ [][NextTwoWorkers]_vars

-----------------------------------------------------------------------------
(* Specification: the service. One sync worker and the session cleanup     *)
(* worker, started and stopped, against a node that also serves logs the  *)
(* worker cannot decode                                                    *)

\* stop() sets _running and no more: the task is neither cancelled nor
\* awaited
StopFlagOnly(w) ==
    /\ running' = [running EXCEPT ![w] = FALSE]
    /\ UNCHANGED <<chain, head, confirmations, committed, pc, tx, batch,
                   batch_count, killed_at, cleanup, lifecycle>>

\* stop(): clear _running, cancel the task and await it. The task is
\* suspended at an await of _run_loop or _process_batch; CancelledError is
\* raised there, is not an Exception, leaves the session block (which rolls
\* the open transaction back) and ends the task. A task cancelled inside
\* session.commit() has committed or has not
Stop(w) ==
    /\ running' = [running EXCEPT ![w] = FALSE]
    /\ pc' = [pc EXCEPT ![w] = "stopped"]
    /\ \/ committed' = committed
       \/ /\ pc[w] = "returned"
          /\ ShouldCommit(batch[w])
          /\ committed' = Commit(committed, tx[w])
    /\ tx' = [tx EXCEPT ![w] = EmptyTx]
    /\ batch' = [batch EXCEPT ![w] = NoBatch]
    /\ batch_count' = [batch_count EXCEPT ![w] = 0]
    /\ UNCHANGED <<chain, head, confirmations, killed_at, cleanup, lifecycle>>

\* an hour passes
SessionExpires ==
    /\ cleanup.clock < MaxClock
    /\ cleanup' = [cleanup EXCEPT !.clock = @ + 1]
    /\ UNCHANGED <<chain, head, confirmations, committed, running, pc, tx,
                   batch, batch_count, killed_at, lifecycle>>

\* SessionCleanupWorker.start()
CleanupStart ==
    /\ IF cleanup.running
       THEN UNCHANGED cleanup
       ELSE /\ cleanup.pc = "stopped"
            /\ cleanup' = [cleanup EXCEPT !.running = TRUE, !.pc = "loop"]
    /\ UNCHANGED <<chain, head, confirmations, committed, running, pc, tx,
                   batch, batch_count, killed_at, lifecycle>>

\* SessionCleanupWorker.stop(): the task is cancelled and awaited, its open
\* transaction rolled back; a task cancelled inside session.commit() has
\* committed or has not
CleanupStop ==
    /\ \E landed \in {{}, IF cleanup.pc = "deleted" THEN cleanup.deleted ELSE {}} :
        cleanup' = [cleanup EXCEPT !.running = FALSE, !.pc = "stopped",
                                   !.sessions = @ \ landed, !.deleted = {}]
    /\ UNCHANGED <<chain, head, confirmations, committed, running, pc, tx,
                   batch, batch_count, killed_at, lifecycle>>

\* datetime.utcnow() as the bound of expires_at: the value has no time zone
\* and expires_at is a column with one, so the driver reads it as local
\* time, which is the instant utc_offset hours later
utcnow(clock, utc_offset) == clock + utc_offset

\* SessionRepository.delete_expired: the rows that the DELETE removes
delete_expired(sessions, clock, utc_offset) ==
    {expires_at \in sessions : expires_at < utcnow(clock, utc_offset)}

\* repository.delete_expired() in a new session
CleanupDelete ==
    /\ cleanup.pc = "loop"
    /\ cleanup' = [cleanup EXCEPT
                      !.deleted = delete_expired(cleanup.sessions, cleanup.clock,
                                                 cleanup.utc_offset),
                      !.pc = "deleted"]
    /\ UNCHANGED <<chain, head, confirmations, committed, running, pc, tx,
                   batch, batch_count, killed_at, lifecycle>>

\* session.commit() of the cleanup loop
CleanupCommit ==
    /\ cleanup.pc = "deleted"
    /\ cleanup' = [cleanup EXCEPT !.sessions = @ \ cleanup.deleted,
                                  !.deleted = {}, !.pc = "sleep"]
    /\ UNCHANGED <<chain, head, confirmations, committed, running, pc, tx,
                   batch, batch_count, killed_at, lifecycle>>

\* the delete or the commit raises: "except Exception", the session is
\* closed and its transaction rolled back
CleanupFails ==
    /\ cleanup.pc \in {"loop", "deleted"}
    /\ cleanup' = [cleanup EXCEPT !.deleted = {}, !.pc = "sleep"]
    /\ UNCHANGED <<chain, head, confirmations, committed, running, pc, tx,
                   batch, batch_count, killed_at, lifecycle>>

\* asyncio.sleep(settings.session_cleanup_interval_seconds), then the
\* loop's test
CleanupSleep ==
    /\ cleanup.pc = "sleep"
    /\ cleanup' = [cleanup EXCEPT !.pc = IF cleanup.running THEN "loop"
                                                           ELSE "stopped"]
    /\ UNCHANGED <<chain, head, confirmations, committed, running, pc, tx,
                   batch, batch_count, killed_at, lifecycle>>

\* what a log that is skipped carries in place of an event name
Undecodable ==
    {[event |-> n, agreement_id |-> "A1", opened_by |-> NoAddress] :
        n \in {"NoTopics", "UnknownTopic", "DecodeFailure"}}

\* the chains the service is run against: a block of two logs and a block of
\* one, decodable or not
ServiceEmissions ==
    Undecodable \cup
    {em \in Emissions : /\ em.event \in {"AgreementCreated", "PaymentFunded"}
                        /\ em.agreement_id \in SeededAgreements}

ServiceChains ==
    {<<MkLog(e1, 1, 0, 1), MkLog(e2, 1, 1, 1), MkLog(e3, 2, 0, 2)>> :
        e1, e2, e3 \in ServiceEmissions}

InitService ==
    /\ chain \in ServiceChains
    /\ head = 2
    /\ confirmations = 0
    /\ committed = InitDB
    /\ running = [w \in Processes |-> FALSE]
    /\ pc = [w \in Processes |-> "stopped"]
    /\ tx = [w \in Processes |-> EmptyTx]
    /\ batch = [w \in Processes |-> NoBatch]
    /\ batch_count = [w \in Processes |-> 0]
    /\ killed_at = <<>>
    /\ cleanup = CleanupStopped
    /\ lifecycle = NoCalls

NextService ==
    \/ \E w \in Workers : WorkerStep(w) \/ Stop(w)
    \/ SessionExpires
    \/ CleanupStart
    \/ CleanupStop
    \/ CleanupDelete
    \/ CleanupCommit
    \/ CleanupFails
    \/ CleanupSleep

SpecService == InitService /\ [][NextService]_vars

-----------------------------------------------------------------------------
(* Specification: the session cleanup worker alone, in a process of any    *)
(* time zone, beside sessions that expire at different hours               *)

\* the hours a process's local time can be behind UTC
UtcOffsets == {0, 1}

\* the expires_at of the sessions in the table
ExpiryTimes == {0, 1, 2}

InitCleanup ==
    /\ chain = <<>>
    /\ head = 0
    /\ confirmations = 0
    /\ committed = InitDB
    /\ running = [w \in Processes |-> FALSE]
    /\ pc = [w \in Processes |-> "stopped"]
    /\ tx = [w \in Processes |-> EmptyTx]
    /\ batch = [w \in Processes |-> NoBatch]
    /\ batch_count = [w \in Processes |-> 0]
    /\ killed_at = <<>>
    /\ cleanup \in {[CleanupStopped EXCEPT !.sessions = table, !.utc_offset = o] :
                       table \in SUBSET ExpiryTimes, o \in UtcOffsets}
    /\ lifecycle = NoCalls

NextCleanup ==
    \/ SessionExpires
    \/ CleanupStart
    \/ CleanupStop
    \/ CleanupDelete
    \/ CleanupCommit
    \/ CleanupFails
    \/ CleanupSleep

SpecCleanup == InitCleanup /\ [][NextCleanup]_vars

-----------------------------------------------------------------------------
(* Specification: the calls of start() and stop() of one ChainSyncWorker    *)
(* instance. Each coroutine runs until its next await, so a call is one     *)
(* step up to the await and one step after it. lifecycle.calls holds the    *)
(* position of each caller, lifecycle.tasks the _run_loop tasks created,    *)
(* lifecycle.task the _task handle (0 for None); running["w1"] is _running. *)

TheWorker == "w1"

\* the _run_loop tasks that exist: created and not yet finished
LiveTasks == {t \in 1..MaxTasks : lifecycle.tasks[t] \in {"alive", "cancelling"}}

\* start() up to its first await: return when _running is set, else await
\* the RPC connectivity check
StartBegin(c) ==
    /\ lifecycle.calls[c] = <<"idle", 0>>
    /\ IF running[TheWorker]
       THEN UNCHANGED lifecycle
       ELSE lifecycle' = [lifecycle EXCEPT !.calls[c] = <<"connecting", 0>>]
    /\ UNCHANGED <<chain, head, confirmations, committed, running, pc, tx,
                   batch, batch_count, killed_at, cleanup>>

\* start() after is_connected() answered, whatever the answer: set _running,
\* create the task and keep its handle in _task
StartResume(c) ==
    /\ lifecycle.calls[c] = <<"connecting", 0>>
    /\ \E t \in 1..MaxTasks :
        /\ lifecycle.tasks[t] = "none"
        /\ \A u \in 1..(t - 1) : lifecycle.tasks[u] # "none"
        /\ running' = [running EXCEPT ![TheWorker] = TRUE]
        /\ lifecycle' = [lifecycle EXCEPT !.calls[c] = <<"idle", 0>>,
                                          !.tasks[t] = "alive",
                                          !.task = t]
    /\ UNCHANGED <<chain, head, confirmations, committed, pc, tx, batch,
                   batch_count, killed_at, cleanup>>

\* stop() up to its await: clear _running, cancel the task _task names and
\* await it; return when _task is None
StopBegin(c) ==
    /\ lifecycle.calls[c] = <<"idle", 0>>
    /\ running' = [running EXCEPT ![TheWorker] = FALSE]
    /\ LET t == lifecycle.task IN
       IF t = 0
       THEN UNCHANGED lifecycle
       ELSE lifecycle' =
                [lifecycle EXCEPT
                    !.calls[c] = <<"awaiting", t>>,
                    !.tasks[t] = IF lifecycle.tasks[t] = "alive"
                                 THEN "cancelling"
                                 ELSE lifecycle.tasks[t]]
    /\ UNCHANGED <<chain, head, confirmations, committed, pc, tx, batch,
                   batch_count, killed_at, cleanup>>

\* a cancelled task gets CancelledError at its await and finishes
TaskCancelled(t) ==
    /\ lifecycle.tasks[t] = "cancelling"
    /\ lifecycle' = [lifecycle EXCEPT !.tasks[t] = "done"]
    /\ UNCHANGED <<chain, head, confirmations, committed, running, pc, tx,
                   batch, batch_count, killed_at, cleanup>>

\* a task finds _running cleared at the top of its outer loop and returns
TaskExits(t) ==
    /\ lifecycle.tasks[t] = "alive"
    /\ ~running[TheWorker]
    /\ lifecycle' = [lifecycle EXCEPT !.tasks[t] = "done"]
    /\ UNCHANGED <<chain, head, confirmations, committed, running, pc, tx,
                   batch, batch_count, killed_at, cleanup>>

\* stop() after the awaited task finished
StopReturn(c) ==
    /\ lifecycle.calls[c][1] = "awaiting"
    /\ lifecycle.tasks[lifecycle.calls[c][2]] = "done"
    /\ lifecycle' = [lifecycle EXCEPT !.calls[c] = <<"idle", 0>>]
    /\ UNCHANGED <<chain, head, confirmations, committed, running, pc, tx,
                   batch, batch_count, killed_at, cleanup>>

InitStart ==
    /\ chain = <<>>
    /\ head = 0
    /\ confirmations = 0
    /\ committed = InitDB
    /\ running = [w \in Processes |-> FALSE]
    /\ pc = [w \in Processes |-> "stopped"]
    /\ tx = [w \in Processes |-> EmptyTx]
    /\ batch = [w \in Processes |-> NoBatch]
    /\ batch_count = [w \in Processes |-> 0]
    /\ killed_at = <<>>
    /\ cleanup = CleanupStopped
    /\ lifecycle = NoCalls

NextStart ==
    \/ \E c \in StartStopCallers : StartBegin(c)
    \/ \E c \in StartStopCallers : StartResume(c)
    \/ \E c \in StartStopCallers : StopBegin(c)
    \/ \E c \in StartStopCallers : StopReturn(c)
    \/ \E t \in 1..MaxTasks : TaskCancelled(t)
    \/ \E t \in 1..MaxTasks : TaskExits(t)

SpecStart == InitStart /\ [][NextStart]_vars

-----------------------------------------------------------------------------
(* Specification: catching up. One worker started behind a chain of        *)
(* CatchUpHead blocks, more than one session's batches can cover           *)

CatchUpHead == 5

\* what the blocks to catch up with emit: an event of an agreement that has
\* a row, one of an agreement that has none, and a log of an unknown topic
CatchUpEmissions ==
    {em \in Emissions : em.event = "AgreementCreated"} \cup
    {em \in Undecodable : em.event = "UnknownTopic"}

CatchUpChains ==
    {<<MkLog(e1, 1, 0, 1), MkLog(e2, 2, 0, 3), MkLog(e3, 3, 0, 5)>> :
        e1, e2, e3 \in CatchUpEmissions}

InitCatchUp ==
    /\ chain \in CatchUpChains
    /\ head = CatchUpHead
    /\ confirmations = 0
    /\ committed = InitDB
    /\ running = [w \in Processes |-> FALSE]
    /\ pc = [w \in Processes |-> "stopped"]
    /\ tx = [w \in Processes |-> EmptyTx]
    /\ batch = [w \in Processes |-> NoBatch]
    /\ batch_count = [w \in Processes |-> 0]
    /\ killed_at = <<>>
    /\ cleanup = CleanupStopped
    /\ lifecycle = NoCalls

NextCatchUp == \E w \in Workers : WorkerStep(w)

SpecCatchUp == InitCatchUp /\ [][NextCatchUp]_vars

-----------------------------------------------------------------------------
(* Specification: catching up, with fairness. The head stays at            *)
(* CatchUpHead and the worker is started and never stopped. The event loop  *)
(* resumes the _run_loop task after every await (weak fairness of each      *)
(* step); a query to the node may fail or be answered by a lagging node     *)
(* any number of times, but it is answered again and again (strong          *)
(* fairness of the answers)                                                 *)

\* a log of an agreement with a row, one of an agreement without, a log of
\* an unknown topic and one whose decoding fails
LiveEmissions ==
    {em \in Emissions : em.event = "AgreementCreated"} \cup
    {em \in Undecodable : em.event \in {"UnknownTopic", "DecodeFailure"}}

LiveChains ==
    {<<MkLog(e1, 1, 0, 1), MkLog(e2, 2, 0, 3), MkLog(e3, 3, 0, CatchUpHead - 1)>> :
        e1, e2, e3 \in LiveEmissions}

InitLive ==
    /\ chain \in LiveChains
    /\ head = CatchUpHead
    /\ confirmations \in 0..MaxConfirmations
    /\ committed = InitDB
    /\ running = [w \in Processes |-> FALSE]
    /\ pc = [w \in Processes |-> "stopped"]
    /\ tx = [w \in Processes |-> EmptyTx]
    /\ batch = [w \in Processes |-> NoBatch]
    /\ batch_count = [w \in Processes |-> 0]
    /\ killed_at = <<>>
    /\ cleanup = CleanupStopped
    /\ lifecycle = NoCalls

\* the steps of a worker that is not stopped
LiveStep(w) ==
    \/ Start(w)
    \/ OpenSession(w)
    \/ DetermineRange(w)
    \/ BlockNumberFails(w)
    \/ FetchLogs(w)
    \/ FetchLogsFails(w)
    \/ ProcessLog(w)
    \/ StorageFault(w)
    \/ LogError(w)
    \/ UpdateState(w)
    \/ AfterBatch(w)
    \/ Sleep(w)

NextLive == \E w \in Workers : LiveStep(w)

\* eth_blockNumber answers with the head
BlockNumberIsHead(w) ==
    DetermineRange(w) /\ batch'[w].current_block = head

FairLive ==
    \A w \in Workers :
        /\ WF_vars(Start(w))
        /\ WF_vars(OpenSession(w))
        /\ SF_vars(BlockNumberIsHead(w))
        /\ SF_vars(FetchLogs(w))
        /\ WF_vars(ProcessLog(w))
        /\ WF_vars(LogError(w))
        /\ WF_vars(UpdateState(w))
        /\ WF_vars(AfterBatch(w))
        /\ WF_vars(Sleep(w))

SpecLive == InitLive /\ [][NextLive]_vars /\ FairLive

-----------------------------------------------------------------------------
(* HTTP surface: DisputeService *)

\* the arbitrator of the seeded agreements
Arbitrator == "arbitrator"

\* DisputeRepository.set_justification
set_justification(db, id, justification) ==
    [db EXCEPT !.disputes[id].justification = justification]

\* submit_justification without the test of a stored justification
submit_justification_overwriting(db, agreement_id, user_id, justification) ==
    IF agreement_id \notin DOMAIN db.agreements
    THEN [db |-> db, outcome |-> "AgreementNotFoundError"]
    ELSE IF user_id # Arbitrator
    THEN [db |-> db, outcome |-> "UnauthorizedArbitratorError"]
    ELSE IF agreement_id \notin DOMAIN db.disputes
    THEN [db |-> db, outcome |-> "DisputeNotFoundError"]
    ELSE IF db.disputes[agreement_id].resolution = "null"
    THEN [db |-> db, outcome |-> "DisputeNotYetResolvedError"]
    ELSE [db |-> set_justification(db, agreement_id, justification),
          outcome |-> "accepted"]

\* DisputeService.submit_justification on the database db: the database
\* afterwards and "accepted" or the error raised
submit_justification(db, agreement_id, user_id, justification) ==
    IF agreement_id \notin DOMAIN db.agreements
    THEN [db |-> db, outcome |-> "AgreementNotFoundError"]
    ELSE IF user_id # Arbitrator
    THEN [db |-> db, outcome |-> "UnauthorizedArbitratorError"]
    ELSE IF agreement_id \notin DOMAIN db.disputes
    THEN [db |-> db, outcome |-> "DisputeNotFoundError"]
    ELSE IF db.disputes[agreement_id].resolution = "null"
    THEN [db |-> db, outcome |-> "DisputeNotYetResolvedError"]
    ELSE IF db.disputes[agreement_id].justification # "null"
    THEN [db |-> db, outcome |-> "DisputeAlreadyResolvedError"]
    ELSE [db |-> set_justification(db, agreement_id, justification),
          outcome |-> "accepted"]

-----------------------------------------------------------------------------
(* The HTTP surface on agreements *)

\* the users of agreement A1: payer_id, payee_id and arbitrator_id
Participants == {"payer", "payee", Arbitrator}

\* AgreementService.submit_agreement on the database db: the database
\* afterwards and "accepted" or the error raised
submit_agreement(db, agreement_id, user_id) ==
    IF agreement_id \notin DOMAIN db.agreements
    THEN [db |-> db, outcome |-> "AgreementNotFoundError"]
    ELSE IF user_id \notin Participants
    THEN [db |-> db, outcome |-> "UnauthorizedAgreementAccessError"]
    ELSE IF user_id # "payer"
    THEN [db |-> db, outcome |-> "InvalidStateTransitionError"]
    ELSE IF db.agreements[agreement_id].status # "DRAFT"
    THEN [db |-> db, outcome |-> "InvalidStateTransitionError"]
    ELSE [db |-> update_status(db, agreement_id, "PENDING_FUNDING"),
          outcome |-> "accepted"]

-----------------------------------------------------------------------------
(* Specification: the HTTP surface beside the worker. Requests of the      *)
(* agreement and dispute routes are served, each in a transaction of its   *)
(* own, while one sync worker follows the chain                            *)

\* the users a request can come from
Callers == Participants \cup {"nobody"}

\* POST /agreements/{id}/submit: the UPDATE waits while the worker's open
\* transaction holds the row, and the request commits what the service wrote
SubmitAgreement ==
    /\ \E a \in SeededAgreements, user_id \in Callers :
        /\ \A w \in Processes : a \notin DOMAIN tx[w].agreements
        /\ committed' = submit_agreement(committed, a, user_id).db
    /\ UNCHANGED <<chain, head, confirmations, running, pc, tx, batch,
                   batch_count, killed_at, cleanup, lifecycle>>

\* the justification route of a dispute
SubmitJustification ==
    /\ \E a \in SeededAgreements, user_id \in Callers :
        /\ \A w \in Processes : a \notin DOMAIN tx[w].disputes
        /\ committed' = submit_justification(committed, a, user_id, "reasons").db
    /\ UNCHANGED <<chain, head, confirmations, running, pc, tx, batch,
                   batch_count, killed_at, cleanup, lifecycle>>

HttpHead == 3

HttpEmissions ==
    {em \in Emissions :
        /\ em.agreement_id \in SeededAgreements
        /\ em.opened_by \in {NoAddress, "0xpayer"}
        /\ em.event \in {"AgreementCreated", "DisputeOpened", "PaymentReleased"}}

HttpChains ==
    {<<MkLog(e1, 1, 0, 1), MkLog(e2, 2, 0, 3)>> : e1, e2 \in HttpEmissions}

InitHttp ==
    /\ chain \in HttpChains
    /\ head = HttpHead
    /\ confirmations = 0
    /\ committed = InitDB
    /\ running = [w \in Processes |-> FALSE]
    /\ pc = [w \in Processes |-> "stopped"]
    /\ tx = [w \in Processes |-> EmptyTx]
    /\ batch = [w \in Processes |-> NoBatch]
    /\ batch_count = [w \in Processes |-> 0]
    /\ killed_at = <<>>
    /\ cleanup = CleanupStopped
    /\ lifecycle = NoCalls

NextHttp ==
    \/ \E w \in Workers : WorkerStep(w)
    \/ SubmitAgreement
    \/ SubmitJustification

SpecHttp == InitHttp /\ [][NextHttp]_vars

-----------------------------------------------------------------------------
(* Helpers of the properties *)

Terminal == {"RELEASED", "REFUNDED"}

\* the views of the database: the committed state and every session's
Views == {committed} \cup {View(committed, tx[w]) : w \in Workers}

\* the logs fed to process_event one after the other, each in its savepoint
RECURSIVE ApplyAll(_, _)
ApplyAll(db, logs) ==
    IF logs = <<>> THEN db
    ELSE ApplyAll(SavepointScoped(db, Head(logs)), Tail(logs))

\* the logs of the blocks 1..n as the node serves them
ServedUpTo(n) == get_logs(1, n)

-----------------------------------------------------------------------------
(* C1: once an agreement's status is RELEASED or REFUNDED, no event        *)
(* processed afterwards changes that status.                               *)
C1_TerminalStatusKept ==
    [][\A a \in DOMAIN committed.agreements :
          committed.agreements[a].status \in Terminal
          => committed'.agreements[a].status = committed.agreements[a].status]_vars

-----------------------------------------------------------------------------
(* C2: feeding the same decoded event twice leaves the agreement, dispute  *)
(* and ledger tables as feeding it once does, and replaying a whole batch  *)
(* of served logs a second time leaves the state of the first pass.        *)
C2_ReplayIsIdempotent ==
    \A db \in Views :
        /\ \A i \in DOMAIN chain :
              SavepointScoped(SavepointScoped(db, chain[i]), chain[i])
                = SavepointScoped(db, chain[i])
        /\ ApplyAll(ApplyAll(db, chain), chain) = ApplyAll(db, chain)

\* the node has served a log a second time, the worker has processed both
\* servings and the ledger holds one row for it
C2_Witness ==
    \E i, j \in DOMAIN chain :
        /\ i < j
        /\ Key(chain[i]) = Key(chain[j])
        /\ committed.cursor >= chain[j].block_number
        /\ Cardinality({r \in committed.ledger : Key(r) = Key(chain[i])}) = 1
        /\ committed.agreements["A1"].status # "DRAFT"

-----------------------------------------------------------------------------
(* C3: in every reachable ledger state no two OnchainEvent rows share the  *)
(* same (chain_id, tx_hash, log_index).                                    *)
C3_LedgerKeyUnique ==
    \A db \in Views :
        \A r1, r2 \in db.ledger :
            (r1.tx_hash = r2.tx_hash /\ r1.log_index = r2.log_index) => r1 = r2

\* a log was served again in a later block, both servings were processed
C3_Witness ==
    \E i, j \in DOMAIN chain :
        /\ i < j
        /\ chain[i].tx_hash = chain[j].tx_hash
        /\ chain[i].log_index = chain[j].log_index
        /\ chain[i].block_number < chain[j].block_number
        /\ committed.cursor >= chain[j].block_number
        /\ \E r \in committed.ledger : r.tx_hash = chain[i].tx_hash

-----------------------------------------------------------------------------
(* C4: create_if_not_exists for an event whose key is already in the       *)
(* ledger returns false and leaves the stored row unchanged, and           *)
(* process_event then writes nothing.                                      *)
C4_DuplicateIsNoOp ==
    \A db \in Views :
        \A i \in DOMAIN chain :
            (\E r \in db.ledger : r.tx_hash = chain[i].tx_hash
                                  /\ r.log_index = chain[i].log_index)
            => /\ ~ create_if_not_exists(db.ledger, OnchainEvent(chain[i])).is_new
               /\ create_if_not_exists(db.ledger, OnchainEvent(chain[i])).ledger
                    = db.ledger
               /\ process_event(db, chain[i]).outcome = "duplicate"
               /\ process_event(db, chain[i]).db = db

\* the worker is about to process a log whose key its session already sees
\* in the ledger, stored with another block number
C4_Witness ==
    \E w \in Workers :
        /\ pc[w] = "events"
        /\ batch[w].logs # <<>>
        /\ \E r \in View(committed, tx[w]).ledger :
              /\ Key(r) = Key(Head(batch[w].logs))
              /\ r.block_number # Head(batch[w].logs).block_number

-----------------------------------------------------------------------------
(* C5: a crash inside a batch leaves the committed state as it was before  *)
(* the batch, and the committed state changes only by the commit of a      *)
(* returned batch, which writes the cursor together with the batch's       *)
(* ledger inserts and projections.                                         *)
C5_BatchIsAtomic ==
    [][/\ Len(killed_at') > Len(killed_at) => committed' = committed
       /\ (\E w \in Workers : pc[w] \in {"fetch", "events", "failed"})
            => committed' = committed
       /\ committed' # committed
            => \E w \in Workers :
                  /\ pc[w] = "returned"
                  /\ batch[w].blocks_processed > 0
                  /\ committed' = View(committed, tx[w])
                  /\ committed'.cursor = tx[w].cursor
                  /\ tx'[w] = EmptyTx]_vars

\* the process was killed after the first ledger insert of the first batch:
\* nothing of it is committed
C5_Witness ==
    /\ killed_at = <<"mid_batch">>
    /\ committed = InitDB
    /\ \A w \in Workers : pc[w] = "stopped" /\ tx[w] = EmptyTx

-----------------------------------------------------------------------------
(* C6: over any run of a single worker process the committed               *)
(* last_processed_block never decreases.                                   *)
C6_CursorMonotonic ==
    [][committed'.cursor >= committed.cursor]_vars

\* after the cursor was committed the node answered a block number that
\* lies below it, and the batch returned without a range
C6_Witness ==
    \E w \in Workers :
        /\ pc[w] = "returned"
        /\ batch[w].reached_top /\ batch[w].blocks_processed = 0
        /\ committed.cursor >= 2
        /\ batch[w].current_block - confirmations < committed.cursor

-----------------------------------------------------------------------------
(* C7: within one batch the events are inserted and projected in ascending *)
(* (block_number, log_index) order whatever order the RPC returned the     *)
(* logs in; across batches the block ranges ascend.                        *)
InOrder(l1, l2) ==
    \/ l1.block_number < l2.block_number
    \/ l1.block_number = l2.block_number /\ l1.log_index <= l2.log_index

C7_AppliedInOrder ==
    \A w \in Workers :
        pc[w] = "events"
        => /\ \A i, j \in DOMAIN batch[w].logs :
                i < j => InOrder(batch[w].logs[i], batch[w].logs[j])
           /\ batch[w].from_block > committed.cursor

-----------------------------------------------------------------------------
(* C8: an event whose agreement_id has no Agreement row is isolated: it    *)
(* leaves no OnchainEvent row, it does not abort the batch, the other      *)
(* events of the batch are applied as if it were not there, and the cursor *)
(* advances to the end of the range.                                       *)
IsOrphan(db, l) == l.agreement_id \notin DOMAIN db.agreements

\* process_event on each log in turn, no savepoint and no exception handler
RECURSIVE ProcessAll(_, _)
ProcessAll(db, logs) ==
    IF logs = <<>> THEN db
    ELSE ProcessAll(process_event(db, Head(logs)).db, Tail(logs))

C8_OrphanIsIsolated ==
    \A w \in Workers :
        LET v    == View(committed, tx[w])
            base == initialize_state_if_needed(committed)
            logs == get_logs(base.cursor + 1, v.cursor)
            kept == SelectSeq(logs, LAMBDA l : ~ IsOrphan(base, l))
        IN  /\ ~ (pc[w] = "failed" /\ batch[w].error = "IntegrityError")
            /\ \A r \in v.ledger : r.agreement_id \in DOMAIN v.agreements
            /\ (pc[w] = "returned" /\ batch[w].blocks_processed > 0)
                 => v = [ProcessAll(base, kept) EXCEPT !.cursor = v.cursor]

\* a batch has returned whose logs held an orphan between two events of a
\* known agreement, both of which are in the session's ledger
C8_Witness ==
    \E w \in Workers :
        LET v    == View(committed, tx[w])
            base == initialize_state_if_needed(committed)
            logs == get_logs(base.cursor + 1, v.cursor)
        IN  /\ pc[w] = "returned" /\ batch[w].blocks_processed > 0
            /\ \E i, j, k \in DOMAIN logs :
                  /\ i < j /\ j < k
                  /\ IsOrphan(v, logs[j])
                  /\ \E r \in v.ledger : Key(r) = Key(logs[i])
                  /\ \E r \in v.ledger : Key(r) = Key(logs[k])
                  /\ v.agreements[logs[k].agreement_id].status # "DRAFT"

-----------------------------------------------------------------------------
(* C9: every block of a batch's range is at most currentBlock -            *)
(* confirmations for the currentBlock read in that batch, the range ends   *)
(* there unless MAX_BATCH cuts it (with confirmations = 0 it ends at       *)
(* currentBlock), and the committed cursor never exceeds the head less the *)
(* confirmations.                                                          *)
C9_ConfirmationsRespected ==
    /\ \A w \in Workers :
          pc[w] \in {"fetch", "events"}
          => LET b == batch[w] IN
             /\ b.from_block <= b.to_block
             /\ b.to_block <= b.current_block - confirmations
             /\ \/ b.to_block = b.current_block - confirmations
                \/ b.to_block = b.from_block + MAX_BATCH
    /\ committed.cursor # NoRow => committed.cursor <= head - confirmations

\* with confirmations = 0 a batch reaches the block number it read, the head
C9_Witness ==
    \E w \in Workers :
        /\ confirmations = 0
        /\ pc[w] = "events"
        /\ batch[w].to_block = batch[w].current_block
        /\ batch[w].current_block = head
        /\ head >= 2

-----------------------------------------------------------------------------
(* C10: a run in which the worker is killed inside a batch and restarted   *)
(* ends in the agreement statuses, dispute rows, ledger and cursor of an   *)
(* uninterrupted run over the same chain: whatever kills happened, the     *)
(* committed state at cursor n is the state of feeding the logs of blocks  *)
(* 1..n, as served, to process_event once each.                            *)
UninterruptedRun(n) ==
    [ApplyAll(InitDB, ServedUpTo(n)) EXCEPT !.cursor = n]

C10_RestartEquivalence ==
    committed.cursor # NoRow => committed = UninterruptedRun(committed.cursor)

\* the worker was killed inside a batch, was restarted and has caught up
\* with the chain
C10_Witness ==
    /\ killed_at = <<"mid_batch">>
    /\ \A w \in Workers : pc[w] = "sleep"
    /\ Len(chain) >= 2
    /\ committed.cursor = head - confirmations
    /\ Cardinality(committed.ledger) >= 2

-----------------------------------------------------------------------------
(* C11: with two sync workers running concurrently for the same chain and  *)
(* contract, the projection of each event key is applied at most once in   *)
(* committed state: a key is inserted by at most one open transaction at a *)
(* time, a key that is committed is in no open transaction (the worker     *)
(* whose insert returned false projected nothing for it), and the          *)
(* committed agreement, dispute and ledger tables are those of one pass    *)
(* over the served logs.                                                   *)
Keys(ledger) == {Key(r) : r \in ledger}

OnePass(n) == ApplyAll(InitDB, ServedUpTo(n))

C11_ProjectedAtMostOnce ==
    /\ \A w \in Processes : \A o \in Others(w) :
          Keys(tx[w].ledger) \cap Keys(tx[o].ledger) = {}
    /\ \A w \in Processes :
          Keys(tx[w].ledger) \cap Keys(committed.ledger) = {}
    /\ \E n \in 0..head :
          /\ committed.agreements = OnePass(n).agreements
          /\ committed.disputes = OnePass(n).disputes
          /\ committed.ledger = OnePass(n).ledger

\* one worker has committed a key and the other worker, whose batch holds
\* the log of that key, is about to process it
C11_Witness ==
    \E w \in Processes : \E o \in Others(w) :
        /\ pc[w] = "events" /\ batch[w].logs # <<>>
        /\ Key(Head(batch[w].logs)) \in Keys(committed.ledger)
        /\ pc[o] \in {"inner", "fetch", "events", "returned", "sleep"}
        /\ batch_count[o] >= 1
        /\ batch_count[w] = 0
        /\ committed.agreements["A1"].status # "DRAFT"

-----------------------------------------------------------------------------
(* C12: in every committed state each Dispute with a non-null resolution   *)
(* belongs to an agreement whose status is RELEASED when the resolution is *)
(* RELEASE and REFUNDED when the resolution is REFUND.                     *)
StatusOfResolution(resolution) ==
    IF resolution = "RELEASE" THEN "RELEASED" ELSE "REFUNDED"

C12_ResolutionMatchesStatus ==
    \A a \in DOMAIN committed.disputes :
        committed.disputes[a].resolution # "null"
        => committed.agreements[a].status
             = StatusOfResolution(committed.disputes[a].resolution)

-----------------------------------------------------------------------------
(* C13: in every committed state each agreement whose status is CREATED,   *)
(* FUNDED, DISPUTED, RELEASED or REFUNDED has a ledger row referencing its *)
(* agreement_id whose event is the one of that transition.                 *)
EventOfStatus(status) ==
    CASE status = "CREATED"  -> "AgreementCreated"
      [] status = "FUNDED"   -> "PaymentFunded"
      [] status = "DISPUTED" -> "DisputeOpened"
      [] status = "RELEASED" -> "PaymentReleased"
      [] status = "REFUNDED" -> "PaymentRefunded"
      [] OTHER -> "none"

C13_StatusHasLedgerRow ==
    \A db \in Views :
        \A a \in DOMAIN db.agreements :
            db.agreements[a].status # "DRAFT"
            => \E r \in db.ledger :
                  /\ r.agreement_id = a
                  /\ r.event_name = EventOfStatus(db.agreements[a].status)

\* an agreement was taken to FUNDED and on to a terminal status, each step
\* with its ledger row committed
C13_Witness ==
    /\ committed.agreements["A1"].status \in Terminal
    /\ committed.agreements["A1"].funded_tx_hash # NoTx
    /\ Cardinality({r \in committed.ledger : r.agreement_id = "A1"}) = 3

-----------------------------------------------------------------------------
(* C14: every Dispute row in every reachable state is either OPEN with     *)
(* resolved_at, resolution and resolution_tx_hash all null, or RESOLVED    *)
(* with the three of them non-null.                                        *)
C14_DisputeConsistent ==
    \A db \in Views :
        \A a \in DOMAIN db.disputes :
            LET d == db.disputes[a] IN
            \/ /\ d.status = "OPEN"
               /\ d.resolved_at = "null"
               /\ d.resolution = "null"
               /\ d.resolution_tx_hash = NoTx
            \/ /\ d.status = "RESOLVED"
               /\ d.resolved_at # "null"
               /\ d.resolution # "null"
               /\ d.resolution_tx_hash # NoTx

\* a dispute was opened and then resolved by a terminal event, and a later
\* event on the agreement was processed
C14_Witness ==
    /\ "A1" \in DOMAIN committed.disputes
    /\ committed.disputes["A1"].status = "RESOLVED"
    /\ Cardinality({r \in committed.ledger : r.agreement_id = "A1"}) = 3

-----------------------------------------------------------------------------
(* C15: when the projector resolves a dispute on PaymentReleased or        *)
(* PaymentRefunded it leaves the dispute's justification null, so that the *)
(* arbitrator's first submit_justification after the worker has resolved   *)
(* the dispute is accepted and stores the arbitrator's text.               *)
C15_JustificationLeftNull ==
    \A a \in DOMAIN committed.disputes :
        committed.disputes[a].status = "RESOLVED"
        => LET r == submit_justification(committed, a, Arbitrator, "reasons") IN
           /\ committed.disputes[a].justification = "null"
           /\ r.outcome = "accepted"
           /\ r.db.disputes[a].justification = "reasons"

-----------------------------------------------------------------------------
(* The handlers on the next log of the chain *)

\* the log of a new transaction in the next block, emitting em
FreshLog(em) == MkLog(em, NextTx, 0, head + 1)

\* the emissions of the event names on an agreement that has a row
EmissionsOf(names) ==
    {em \in Emissions : em.event \in names /\ em.agreement_id \in SeededAgreements}

-----------------------------------------------------------------------------
(* C16: on PaymentReleased (resp. PaymentRefunded) for an agreement that   *)
(* has a Dispute whose resolution is null, the dispute becomes RESOLVED    *)
(* with resolution RELEASE (resp. REFUND) and resolution_tx_hash the       *)
(* event's tx hash, in the step that sets the agreement to RELEASED (resp. *)
(* REFUNDED); a dispute whose resolution is set is left unchanged, and an  *)
(* agreement without a dispute gets none.                                  *)
ResolutionOfEvent(event) ==
    IF event = "PaymentReleased" THEN "RELEASE" ELSE "REFUND"

C16_TerminalEventResolvesDispute ==
    \A db \in Views :
        \A em \in EmissionsOf({"PaymentReleased", "PaymentRefunded"}) :
            LET e   == FreshLog(em)
                id  == em.agreement_id
                r   == process_event(db, e)
                res == ResolutionOfEvent(em.event)
            IN  /\ r.outcome = "applied"
                /\ r.db.agreements[id].status = StatusOfResolution(res)
                /\ IF id \in DOMAIN db.disputes
                      /\ db.disputes[id].resolution = "null"
                   THEN /\ r.db.disputes[id].status = "RESOLVED"
                        /\ r.db.disputes[id].resolution = res
                        /\ r.db.disputes[id].resolution_tx_hash = e.tx_hash
                        /\ r.db.disputes[id].opened_by = db.disputes[id].opened_by
                   ELSE r.db.disputes = db.disputes

\* a dispute was opened and PaymentRefunded was processed and committed:
\* the dispute carries REFUND and the tx hash of the refund
C16_Witness ==
    /\ "A1" \in DOMAIN committed.disputes
    /\ committed.disputes["A1"].resolution = "REFUND"
    /\ committed.agreements["A1"].status = "REFUNDED"
    /\ committed.disputes["A1"].resolution_tx_hash
         = committed.agreements["A1"].refunded_tx_hash

-----------------------------------------------------------------------------
(* C17: there is at most one Dispute row per agreement: the first          *)
(* DisputeOpened whose openedBy matches a known user creates it with       *)
(* opened_by that user's id, and every later DisputeOpened for the         *)
(* agreement, from the same or another wallet, leaves the existing row and *)
(* its opened_by unchanged.                                                *)
C17_OneDisputePerAgreement ==
    \A db \in Views :
        \A em \in EmissionsOf({"DisputeOpened"}) :
            LET id == em.agreement_id
                r  == process_event(db, FreshLog(em))
            IN  /\ id \in DOMAIN db.disputes => r.db.disputes = db.disputes
                /\ (id \notin DOMAIN db.disputes /\ em.opened_by \in KnownWallets)
                     => /\ DOMAIN r.db.disputes = DOMAIN db.disputes \cup {id}
                        /\ r.db.disputes[id].opened_by = UserOfWallet(em.opened_by)
                        /\ r.db.disputes[id].status = "OPEN"

\* the payer opened a dispute, the payee's DisputeOpened for the same
\* agreement was processed later, and the row is still the payer's
C17_Witness ==
    \E i, j \in DOMAIN chain :
        /\ i < j
        /\ chain[i].event = "DisputeOpened" /\ chain[i].opened_by = "0xpayer"
        /\ chain[j].event = "DisputeOpened" /\ chain[j].opened_by = "0xpayee"
        /\ chain[i].tx_hash # chain[j].tx_hash
        /\ committed.cursor >= chain[j].block_number
        /\ committed.disputes["A1"].opened_by = "payer"

-----------------------------------------------------------------------------
(* C18: a DisputeOpened whose openedBy address matches no user sets the    *)
(* agreement's status to DISPUTED and records its ledger row but creates   *)
(* no Dispute row, and it does not fail its savepoint or the batch.        *)
C18_UnknownOpenerStillDisputes ==
    /\ \A db \in Views :
          \A em \in EmissionsOf({"DisputeOpened"}) :
              LET e  == FreshLog(em)
                  id == em.agreement_id
                  r  == process_event(db, e)
              IN  em.opened_by \notin KnownWallets
                  => /\ r.outcome = "applied"
                     /\ SavepointScoped(db, e) = r.db
                     /\ r.db.agreements[id].status = "DISPUTED"
                     /\ \E row \in r.db.ledger : Key(row) = Key(e)
                     /\ r.db.disputes = db.disputes
    /\ \A w \in Workers : pc[w] = "failed" => batch[w].error = "StorageError"

\* the DisputeOpened of an unregistered address was processed and committed
\* with the event after it: DISPUTED, two ledger rows, no Dispute row
C18_Witness ==
    /\ Len(chain) >= 2
    /\ chain[1].event = "DisputeOpened" /\ chain[1].opened_by = "0xstranger"
    /\ chain[2].event = "PaymentFunded"
    /\ chain[1].tx_hash # chain[2].tx_hash
    /\ committed.cursor >= chain[2].block_number
    /\ committed.agreements["A1"].status = "DISPUTED"
    /\ committed.disputes = NoRows
    /\ Cardinality(committed.ledger) = 2

-----------------------------------------------------------------------------
(* C19: AgreementCreated for an existing agreement in DRAFT sets           *)
(* created_tx_hash to the event's tx hash and status to CREATED; for an    *)
(* agreement in any other status it changes neither status nor             *)
(* created_tx_hash.                                                        *)
C19_CreatedOnlyFromDraft ==
    \A db \in Views :
        \A em \in EmissionsOf({"AgreementCreated"}) :
            LET e  == FreshLog(em)
                id == em.agreement_id
                r  == process_event(db, e)
            IN  IF db.agreements[id].status = "DRAFT"
                THEN r.db.agreements[id] =
                        [db.agreements[id] EXCEPT !.status = "CREATED",
                                                  !.created_tx_hash = e.tx_hash]
                ELSE r.db.agreements = db.agreements

\* AgreementCreated was processed twice, from two transactions: the
\* agreement carries the tx hash of the first and has moved on since
C19_Witness ==
    \E r1, r2 \in committed.ledger :
        /\ r1.event_name = "AgreementCreated" /\ r2.event_name = "AgreementCreated"
        /\ r1.agreement_id = "A1" /\ r2.agreement_id = "A1"
        /\ r1.tx_hash < r2.tx_hash
        /\ committed.agreements["A1"].created_tx_hash = r1.tx_hash
        /\ committed.agreements["A1"].status = "FUNDED"

-----------------------------------------------------------------------------
(* C20: PaymentFunded sets funded_tx_hash and status FUNDED exactly when   *)
(* the agreement's status is CREATED; in every other status it changes no  *)
(* agreement column.                                                       *)
C20_FundedOnlyFromCreated ==
    \A db \in Views :
        \A em \in EmissionsOf({"PaymentFunded"}) :
            LET e  == FreshLog(em)
                id == em.agreement_id
                r  == process_event(db, e)
            IN  IF db.agreements[id].status = "CREATED"
                THEN r.db.agreements[id] =
                        [db.agreements[id] EXCEPT !.status = "FUNDED",
                                                  !.funded_tx_hash = e.tx_hash]
                ELSE r.db.agreements = db.agreements

\* PaymentFunded was processed on a terminal agreement and left it alone
C20_Witness ==
    /\ committed.agreements["A1"].status \in Terminal
    /\ committed.agreements["A1"].funded_tx_hash = NoTx
    /\ \E r \in committed.ledger :
          /\ r.event_name = "PaymentFunded" /\ r.agreement_id = "A1"
          /\ \E t \in committed.ledger :
                /\ t.event_name \in {"PaymentReleased", "PaymentRefunded"}
                /\ t.block_number < r.block_number

-----------------------------------------------------------------------------
(* C21: DisputeOpened moves an agreement to DISPUTED only along the        *)
(* allowed transition FUNDED -> DISPUTED: when the agreement is in DRAFT   *)
(* or CREATED the event is a no-op for its status.                         *)
C21_DisputedOnlyFromFunded ==
    \A db \in Views :
        \A em \in EmissionsOf({"DisputeOpened"}) :
            LET id == em.agreement_id
                r  == process_event(db, FreshLog(em))
            IN  db.agreements[id].status \in {"DRAFT", "CREATED"}
                => r.db.agreements[id].status = db.agreements[id].status

-----------------------------------------------------------------------------
(* C22: PaymentReleased (resp. PaymentRefunded) for an existing agreement  *)
(* in any non-terminal status, DRAFT, CREATED, FUNDED or DISPUTED, sets    *)
(* status RELEASED (resp. REFUNDED) and released_tx_hash (resp.            *)
(* refunded_tx_hash) to the event's tx hash.                               *)
C22_TerminalEventUnconditional ==
    \A db \in Views :
        \A em \in EmissionsOf({"PaymentReleased", "PaymentRefunded"}) :
            LET e  == FreshLog(em)
                id == em.agreement_id
                r  == process_event(db, e)
            IN  db.agreements[id].status \notin Terminal
                => IF em.event = "PaymentReleased"
                   THEN /\ r.db.agreements[id].status = "RELEASED"
                        /\ r.db.agreements[id].released_tx_hash = e.tx_hash
                   ELSE /\ r.db.agreements[id].status = "REFUNDED"
                        /\ r.db.agreements[id].refunded_tx_hash = e.tx_hash

\* PaymentReleased was the first event processed for the agreement, which
\* went from DRAFT to RELEASED
C22_Witness ==
    /\ committed.agreements["A1"].status = "RELEASED"
    /\ committed.agreements["A1"].created_tx_hash = NoTx
    /\ committed.agreements["A1"].funded_tx_hash = NoTx
    /\ \E r \in committed.ledger :
          /\ r.event_name = "PaymentReleased"
          /\ r.tx_hash = committed.agreements["A1"].released_tx_hash
          /\ \A t \in committed.ledger : t.tx_hash >= r.tx_hash

-----------------------------------------------------------------------------
(* C23: for an agreement seeded in DRAFT whose AgreementCreated,           *)
(* PaymentFunded and PaymentReleased events lie in three successive blocks *)
(* and with confirmations = 0, the worker moves its status DRAFT ->        *)
(* CREATED -> FUNDED -> RELEASED, leaves exactly three OnchainEvent rows   *)
(* for it and creates no Dispute row.                                      *)
HappyEvents == <<"AgreementCreated", "PaymentFunded", "PaymentReleased">>

StatusAfter == <<"DRAFT", "CREATED", "FUNDED", "RELEASED">>

\* the chain so far is the happy path: event i in block i, one transaction
\* each
HappyPath ==
    /\ confirmations = 0
    /\ \A i \in DOMAIN chain :
          /\ chain[i].event = HappyEvents[i]
          /\ chain[i].agreement_id = "A1"
          /\ chain[i].block_number = i
          /\ chain[i].tx_hash = i

LedgerOf(db, id) == {r \in db.ledger : r.agreement_id = id}

C23_HappyPath ==
    HappyPath =>
        /\ \A db \in Views :
              /\ db.agreements["A1"].status
                   = StatusAfter[Cardinality(LedgerOf(db, "A1")) + 1]
              /\ db.disputes = NoRows
        /\ committed.cursor # NoRow
             => LedgerOf(committed, "A1")
                  = {OnchainEvent(chain[i]) :
                        i \in {j \in DOMAIN chain : j <= committed.cursor}}

\* the three events were processed and committed up to block 3
C23_Witness ==
    /\ HappyPath
    /\ Len(chain) = 3
    /\ committed.cursor = 3
    /\ committed.agreements["A1"].status = "RELEASED"
    /\ Cardinality(LedgerOf(committed, "A1")) = 3
    /\ committed.disputes = NoRows

-----------------------------------------------------------------------------
\* C24: when stop() cancels the sync worker, the cancellation takes effect
\* only between batches: a stop step never finds the task inside a batch
\* that has started fetching or applying events
C24_CancelledOnlyBetweenBatches ==
    [][\A w \in Workers :
          (running[w] /\ ~ running'[w] /\ killed_at' = killed_at)
              => pc[w] \notin {"fetch", "events"}]_vars

-----------------------------------------------------------------------------
-----------------------------------------------------------------------------
\* C26: no operation of the HTTP surface changes an agreement's status or
\* tx hash columns, so submit_agreement by any user leaves every agreement
\* row as it was and the status one of DRAFT, CREATED, FUNDED, DISPUTED,
\* RELEASED, REFUNDED
C26_HttpLeavesLifecycleColumns ==
    \A a \in DOMAIN committed.agreements :
        \A user_id \in Participants \cup {"nobody"} :
            LET r == submit_agreement(committed, a, user_id) IN
            /\ r.db.agreements = committed.agreements
            /\ r.db.agreements[a].status \in
                   {"DRAFT", "CREATED", "FUNDED", "DISPUTED", "RELEASED", "REFUNDED"}

-----------------------------------------------------------------------------
\* C27: the range of a batch is [from, to] with from = last_processed_block
\* + 1 and to = min(tip, from + MAX_BATCH - 1), so that a batch fetches at
\* most MAX_BATCH blocks
C27_BatchAtMostMaxBatch ==
    \A w \in Workers :
        pc[w] \in {"fetch", "events"}
        => LET b    == batch[w]
               tip  == b.current_block - confirmations
               from == View(committed, tx[w]).cursor + 1
               cap  == from + MAX_BATCH - 1
           IN  /\ b.from_block = from
               /\ b.to_block = IF tip < cap THEN tip ELSE cap
               /\ b.to_block - b.from_block + 1 <= MAX_BATCH

-----------------------------------------------------------------------------
\* the cursor a batch starts from when the committed cursor is c
CursorOrStart(c) == IF c = NoRow THEN START_BLOCK ELSE c

\* C28: an exception other than an integrity error raised while processing
\* an event aborts the whole batch: nothing of the batch is committed or
\* left in the session, the cursor is not advanced, the task keeps running
\* (it logs and sleeps), and every batch, the retry included, starts at the
\* committed last_processed_block + 1
C28_FaultAbortsBatch ==
    /\ [][\A w \in Workers :
            /\ (pc[w] = "events" /\ pc'[w] = "failed")
                   => /\ committed' = committed
                      /\ tx'[w] = EmptyTx
                      /\ running'[w]
            /\ (pc[w] = "failed" /\ pc'[w] # "failed" /\ killed_at' = killed_at)
                   => /\ committed' = committed
                      /\ pc'[w] = "sleep"
                      /\ running'[w]]_vars
    /\ [](\A w \in Workers :
            pc[w] \in {"fetch", "events"}
            => batch[w].from_block = CursorOrStart(committed.cursor) + 1)

\* a storage fault has aborted a batch on its second or a later event, in a
\* session that had committed a batch before
C28_Witness ==
    \E w \in Workers :
        /\ pc[w] = "failed"
        /\ batch[w].error = "StorageError"
        /\ Len(batch[w].logs)
              < Len(get_logs(batch[w].from_block, batch[w].to_block))
        /\ committed.cursor > START_BLOCK
        /\ committed.cursor < batch[w].from_block

-----------------------------------------------------------------------------
\* C29: when the block number query or the log fetch fails, _process_batch
\* returns (0, False): nothing of the batch is committed, the task goes to
\* its sleep and keeps running, and every batch, the retry included, starts
\* at the committed last_processed_block + 1
C29_RpcFailureChangesNothing ==
    /\ [][\A w \in Workers :
            /\ (/\ pc[w] \in {"inner", "fetch"} /\ pc'[w] = "returned"
                /\ batch'[w].blocks_processed = 0 /\ ~ batch'[w].reached_top)
                   => committed' = committed /\ running'[w]
            /\ (/\ pc[w] = "returned" /\ pc'[w] # "returned"
                /\ batch[w].blocks_processed = 0 /\ ~ batch[w].reached_top
                /\ killed_at' = killed_at)
                   => /\ committed' = committed
                      /\ tx'[w] = EmptyTx
                      /\ pc'[w] = "sleep"
                      /\ running'[w]]_vars
    /\ [](\A w \in Workers :
            pc[w] = "fetch"
            => batch[w].from_block = CursorOrStart(committed.cursor) + 1)

\* a poll has failed at the node after an earlier batch was committed and
\* with confirmed blocks left to fetch
C29_Witness ==
    \E w \in Workers :
        /\ pc[w] = "returned"
        /\ batch[w].blocks_processed = 0
        /\ ~ batch[w].reached_top
        /\ committed.cursor > START_BLOCK
        /\ head - confirmations > committed.cursor

-----------------------------------------------------------------------------
\* the logs of the blocks 1..n that carry an event of the topic table
NamedUpTo(n) == SelectSeq(ServedUpTo(n), LAMBDA l : l.event \in EventNames)

\* C30: a log with no topics, with a topic0 outside the table or whose
\* decoding fails is skipped: it gets no ledger row and is not projected,
\* the logs after it are processed and the cursor advances over it, so that
\* the committed tables are those of the other logs up to the cursor
C30_UndecodableSkipped ==
    /\ [](\A v \in Views : \A r \in v.ledger : r.event_name \in EventNames)
    /\ [](committed.cursor # NoRow
            => committed = [ApplyAll(InitDB, NamedUpTo(committed.cursor))
                               EXCEPT !.cursor = committed.cursor])
    /\ [][\A w \in Workers :
            (/\ pc[w] = "events" /\ pc'[w] = "events"
             /\ batch[w].logs # <<>>
             /\ Head(batch[w].logs).event \notin EventNames
             /\ batch'[w].logs # batch[w].logs)
                => /\ tx'[w] = tx[w]
                   /\ batch'[w].logs = Tail(batch[w].logs)]_vars

\* a batch with an undecodable log before a decodable one is committed: the
\* cursor is at the end of the range and the decodable log has its row
C30_Witness ==
    /\ committed.cursor = 2
    /\ \E i, j \in DOMAIN chain :
          /\ i < j
          /\ chain[i].event \notin EventNames
          /\ chain[j].event = "AgreementCreated"
          /\ \E r \in committed.ledger : Key(r) = Key(chain[j])
          /\ committed.agreements[chain[j].agreement_id].status = "CREATED"
    /\ Cardinality(committed.ledger) < Len(chain)

-----------------------------------------------------------------------------
\* C31: when currentBlock - confirmations <= last_processed_block the batch
\* fetches no logs and returns (0, True); it commits nothing, the tables and
\* the cursor stay as they are, and the inner loop ends: the session is left
\* for the sleep
C31_AtTopNothingToDo ==
    [][\A w \in Workers :
         LET last == CursorOrStart(View(committed, tx[w]).cursor) IN
         /\ (pc[w] = "inner" /\ pc'[w] = "fetch")
                => batch'[w].current_block - confirmations > last
         /\ (pc[w] = "inner" /\ pc'[w] = "returned" /\ batch'[w].reached_top)
                => /\ batch'[w].current_block - confirmations <= last
                   /\ batch'[w].blocks_processed = 0
                   /\ committed' = committed
         /\ (/\ pc[w] = "returned" /\ pc'[w] # "returned"
             /\ batch[w].blocks_processed = 0 /\ batch[w].reached_top
             /\ killed_at' = killed_at)
                => /\ committed' = committed
                   /\ tx'[w] = EmptyTx
                   /\ pc'[w] = "sleep"]_vars

\* a batch has returned (0, True) at a cursor that an earlier batch had
\* committed together with events
C31_Witness ==
    \E w \in Workers :
        /\ pc[w] = "returned"
        /\ batch[w].blocks_processed = 0
        /\ batch[w].reached_top
        /\ committed.cursor > START_BLOCK
        /\ committed.ledger # {}
        /\ batch[w].current_block - confirmations <= committed.cursor

-----------------------------------------------------------------------------
\* C32: within one session the inner loop commits at most
\* MAX_BATCHES_PER_SESSION batches, one commit per batch (each commit is
\* counted), and a batch is begun only below that count; the loop ends as
\* soon as a batch reaches the top or processes no block
C32_BatchesPerSession ==
    /\ [](\A w \in Workers :
            /\ batch_count[w] <= MAX_BATCHES_PER_SESSION
            /\ pc[w] \in {"inner", "fetch", "events"}
                   => batch_count[w] < MAX_BATCHES_PER_SESSION)
    /\ [][\A w \in Workers :
            /\ committed' # committed
                   => /\ pc[w] = "returned"
                      /\ batch[w].blocks_processed > 0
                      /\ batch_count'[w] = batch_count[w] + 1
            /\ (/\ pc[w] = "returned" /\ pc'[w] # "returned"
                /\ killed_at' = killed_at
                /\ batch[w].reached_top \/ batch[w].blocks_processed = 0)
                   => pc'[w] = "sleep"
            /\ (pc[w] = "returned" /\ pc'[w] = "inner")
                   => /\ ~ batch[w].reached_top
                      /\ batch[w].blocks_processed > 0
                      /\ batch_count'[w] < MAX_BATCHES_PER_SESSION]_vars

\* a session has committed MAX_BATCHES_PER_SESSION batches, none of which
\* reached the top, and is left with blocks still to fetch
C32_Witness ==
    \E w \in Workers :
        /\ pc[w] = "sleep"
        /\ batch_count[w] = MAX_BATCHES_PER_SESSION
        /\ committed.cursor < head - confirmations

-----------------------------------------------------------------------------
\* C33: submit_justification is rejected with UnauthorizedArbitratorError
\* for a caller who is not the arbitrator, with DisputeNotYetResolvedError
\* while the dispute's resolution is null and with
\* DisputeAlreadyResolvedError once a justification is stored; a rejected
\* call writes nothing, and an accepted one is on a resolved dispute and
\* cannot be repeated
C33_JustificationRejections ==
    \A a \in DOMAIN committed.agreements : \A user_id \in Callers :
        LET r == submit_justification(committed, a, user_id, "reasons")
            d == committed.disputes[a]
        IN  /\ user_id # Arbitrator => r.outcome = "UnauthorizedArbitratorError"
            /\ (user_id = Arbitrator /\ a \in DOMAIN committed.disputes)
                  => /\ d.resolution = "null"
                          => r.outcome = "DisputeNotYetResolvedError"
                     /\ (d.resolution # "null" /\ d.justification # "null")
                          => r.outcome = "DisputeAlreadyResolvedError"
            /\ r.outcome # "accepted" => r.db = committed
            /\ r.outcome = "accepted"
                  => /\ d.resolution # "null"
                     /\ submit_justification(r.db, a, user_id, "again").outcome
                           = "DisputeAlreadyResolvedError"

\* the worker has resolved a dispute and the arbitrator's submission on it
\* is rejected as already made
C33_Witness ==
    \E a \in DOMAIN committed.disputes :
        /\ committed.disputes[a].status = "RESOLVED"
        /\ submit_justification(committed, a, Arbitrator, "reasons").outcome
              = "DisputeAlreadyResolvedError"
        /\ submit_justification(committed, a, "payer", "reasons").outcome
              = "UnauthorizedArbitratorError"

-----------------------------------------------------------------------------
\* C34: an iteration of the cleanup worker deletes only sessions whose
\* expires_at is in the past, never an unexpired one: every row that its
\* open transaction has deleted, and that its commit removes, has expired
C34_OnlyExpiredDeleted ==
    \A expires_at \in cleanup.deleted : expires_at < cleanup.clock

-----------------------------------------------------------------------------
\* C35: for a single worker the committed batches cover contiguous ranges
\* that do not overlap: a batch begins at the committed last_processed_block
\* + 1 and is not empty, and its commit moves the cursor from there by the
\* number of blocks the batch processed
C35_ContiguousBatches ==
    /\ [](\A w \in Workers :
            pc[w] \in {"fetch", "events"}
            => /\ batch[w].from_block = CursorOrStart(committed.cursor) + 1
               /\ batch[w].to_block >= batch[w].from_block)
    /\ [][committed'.cursor # committed.cursor
            => \E w \in Workers :
                 /\ pc[w] = "returned"
                 /\ batch[w].blocks_processed > 0
                 /\ committed'.cursor = CursorOrStart(committed.cursor)
                                          + batch[w].blocks_processed]_vars

\* a second batch of the worker is about to be committed on top of a
\* committed first one
C35_Witness ==
    \E w \in Workers :
        /\ pc[w] = "returned"
        /\ batch[w].blocks_processed > 0
        /\ committed.cursor > START_BLOCK
        /\ tx[w].cursor = committed.cursor + batch[w].blocks_processed

-----------------------------------------------------------------------------
\* C36: in every committed state every OnchainEvent row has block_number <=
\* the committed last_processed_block: no event is committed to the ledger
\* ahead of the cursor
C36_LedgerNotAheadOfCursor ==
    \A r \in committed.ledger :
        /\ committed.cursor # NoRow
        /\ r.block_number <= committed.cursor

-----------------------------------------------------------------------------
\* C39: with two sync workers on the same (chain id, contract address) the
\* committed last_processed_block never decreases
C39_CursorMonotonicTwoWorkers ==
    [][committed.cursor # NoRow => committed'.cursor >= committed.cursor]_vars

-----------------------------------------------------------------------------
\* C37: whenever the ledger holds an AgreementCreated row for an agreement,
\* the agreement's status is CREATED or later, never DRAFT or
\* PENDING_FUNDING, also when submit_agreement calls interleave with the
\* worker's batches
C37_CreatedRowMeansCreated ==
    \A r \in committed.ledger :
        (r.event_name = "AgreementCreated"
            /\ r.agreement_id \in DOMAIN committed.agreements)
        => committed.agreements[r.agreement_id].status
              \notin {"DRAFT", "PENDING_FUNDING"}

\* C38: at most one _run_loop task exists per ChainSyncWorker instance at
\* any time, also when two start() calls, or a start() and a stop(), overlap
\* at the await on the connectivity check between testing _running and
\* setting it.
C38_AtMostOneRunLoopTask == Cardinality(LiveTasks) <= 1

-----------------------------------------------------------------------------
\* C40: when the node goes on answering, the head stays at H, the worker is
\* not stopped and, from some time on, no event raises a fault other than an
\* integrity error, the worker eventually commits
\* last_processed_block = H - confirmations, whatever orphaned, unknown-topic
\* or undecodable logs lie in the range.
C40_EventuallyCaughtUp ==
    <>[](\A w \in Workers : batch[w].error # "StorageError")
        => <>(committed.cursor = head - confirmations)

\* the committed cursor is at H - confirmations and the blocks up to it hold
\* an orphaned log and a log that cannot be decoded
C40_Witness ==
    /\ running["w1"]
    /\ committed.cursor = head - confirmations
    /\ \E i, j \in DOMAIN chain :
        /\ chain[i].block_number <= committed.cursor
        /\ chain[j].block_number <= committed.cursor
        /\ chain[i].agreement_id \in OrphanAgreements
        /\ ~ Decodable(chain[j])

====
